---- MODULE Spec2Model ----
(***************************************************************************)
(* The bounded-concurrency enrichment pipeline of arvix/paper_translate.py *)
(* as a state machine: translate_jsonl_file (the batch orchestrator), one  *)
(* translate_paper_record task per record behind an asyncio.Semaphore, and *)
(* the two client calls translate_title / translate_summary of a record.   *)
(*                                                                         *)
(* A Python value is [type, toks]: a str is the sequence of its pieces     *)
(* (so that a prefix can be looked at), a dict value lists key, value,     *)
(* key, value, ...  A record (a Python dict read from one JSONL line) is   *)
(* the insertion-ordered sequence of its [k, v] items.  The CJK message    *)
(* texts of the source are written in ASCII.                               *)
(***************************************************************************)
EXTENDS Naturals, Sequences, FiniteSets, TLC

VARIABLES
    apiKey,      \* the value of the environment variable DEEPSEEK_API_KEY
    inputFile,   \* [exists, lines]: the file at input_filepath
    outputFile,  \* [exists, lines]: the file at output_filepath
    phase,       \* where translate_jsonl_file is
    reports,     \* the error messages printed by translate_jsonl_file
    papers,      \* the list papers (the dicts are enriched in place)
    semValue,    \* asyncio.Semaphore._value: the permits still available
    pc,          \* pc[i]: where the task translate_paper_record of paper i is
    call,        \* call[i][f]: where the client coroutine of field f is
    ret,         \* ret[i][f]: the value that coroutine returned
    resp,        \* resp[i][f]: the response its POST received
    posts,       \* posts[i][f]: the number of POSTs issued for (i, f)
    res,         \* the (index, result) pairs in completion order
    translated   \* translated_papers, the result of the batch gather

vars == <<apiKey, inputFile, outputFile, phase, reports, papers, semValue,
          pc, call, ret, resp, posts, res, translated>>

---------------------------------------------------------------------------
(* Bounds of the model.  The source sets MAX_CONCURRENT_REQUESTS to 10; the *)
(* model runs the same gate with a smaller ceiling so that MaxRecords       *)
(* records saturate it.                                                     *)
MaxRecords == 3
MAX_CONCURRENT_REQUESTS == 2
\* at most this many client calls of one run end in a failure or in an
\* incomplete summary object
MaxFailures == 1
\* at most this many items of an input file are out of the ordinary
MaxIrregular == 1

Fields == <<"title", "summary">>
FieldSet == {"title", "summary"}

---------------------------------------------------------------------------
(* Python values *)
Str(toks) == [type |-> "str", toks |-> toks]
NoneVal == [type |-> "none", toks |-> <<>>]
IntVal == [type |-> "int", toks |-> <<"7">>]
EmptyStr == Str(<<>>)

\* bool(v): None, "" and {} are falsy
Truthy(v) == v.type # "none" /\ (v.type \in {"str", "dict"} => v.toks # <<>>)

Whitespace == {" "}

RECURSIVE LStrip(_)
LStrip(toks) ==
    IF toks # <<>> /\ Head(toks) \in Whitespace THEN LStrip(Tail(toks)) ELSE toks

RECURSIVE RStrip(_)
RStrip(toks) ==
    IF toks # <<>> /\ toks[Len(toks)] \in Whitespace
    THEN RStrip(SubSeq(toks, 1, Len(toks) - 1))
    ELSE toks

\* str.strip()
Strip(toks) == RStrip(LStrip(toks))

(* Python dicts: insertion-ordered items *)
HasKey(d, k) == \E n \in 1..Len(d) : d[n].k = k

\* d.get(k, default)
DictGet(d, k, default) ==
    IF HasKey(d, k) THEN d[CHOOSE n \in 1..Len(d) : d[n].k = k].v ELSE default

\* d[k] = v with an item appended even when the key is there
DictSetAppending(d, k, v) == Append(d, [k |-> k, v |-> v])

\* d[k] = v: the item of an existing key is replaced where it stands
DictSet(d, k, v) ==
    IF HasKey(d, k)
    THEN [n \in 1..Len(d) |-> IF d[n].k = k THEN [k |-> k, v |-> v] ELSE d[n]]
    ELSE Append(d, [k |-> k, v |-> v])

---------------------------------------------------------------------------
(* The input: JSONL lines as save_results_to_jsonl writes them *)
FieldKinds == {"absent", "empty", "blank", "text", "nonstr"}

FieldValue(f, i, kind) ==
    CASE kind = "empty" -> EmptyStr
      [] kind = "blank" -> Str(<<" ">>)
      [] kind = "nonstr" -> IntVal
      [] OTHER -> Str(<<f, ToString(i)>>)

Item(k, v) == [k |-> k, v |-> v]

PassThrough(k, i) == Item(k, Str(<<k, ToString(i)>>))

OldTitleZh == Str(<<"old title_zh">>)
OldAI == [type |-> "dict", toks |-> <<"task", "old">>]

\* the record of line i; enriched: it carries title_zh and AI of an earlier run
RecordAt(i, tk, sk, enriched) ==
    <<PassThrough("id", i), PassThrough("pdf", i), PassThrough("abs", i),
      PassThrough("authors", i)>>
    \o (IF tk = "absent" THEN <<>> ELSE <<Item("title", FieldValue("title", i, tk))>>)
    \o <<PassThrough("categories", i), PassThrough("comment", i)>>
    \o (IF sk = "absent" THEN <<>> ELSE <<Item("summary", FieldValue("summary", i, sk))>>)
    \o (IF enriched THEN <<Item("title_zh", OldTitleZh), Item("AI", OldAI)>> ELSE <<>>)

\* a line of text: ok says whether it is the JSON text of obj
GoodLine(obj) == [ok |-> TRUE, obj |-> obj]
MalformedLine == [ok |-> FALSE, obj |-> <<>>]

LineShapes ==
    {[bad |-> b, tk |-> t, sk |-> s, enriched |-> e] :
        b \in BOOLEAN, t \in FieldKinds, s \in FieldKinds, e \in BOOLEAN}

Irregular(sh) ==
    (IF sh.bad THEN 1 ELSE 0) + (IF sh.tk # "text" THEN 1 ELSE 0)
    + (IF sh.sk # "text" THEN 1 ELSE 0) + (IF sh.enriched THEN 1 ELSE 0)

\* a malformed line has no content to vary
WellShaped(sh) == sh.bad => (sh.tk = "text" /\ sh.sk = "text" /\ ~sh.enriched)

RECURSIVE SumIrregular(_)
SumIrregular(shapes) ==
    IF shapes = <<>> THEN 0 ELSE Irregular(Head(shapes)) + SumIrregular(Tail(shapes))

LineOf(i, sh) ==
    IF sh.bad THEN MalformedLine ELSE GoodLine(RecordAt(i, sh.tk, sh.sk, sh.enriched))

WellShapes == {sh \in LineShapes : WellShaped(sh)}

\* the sequences of k line shapes with at most budget irregular items
RECURSIVE ShapeSeqs(_, _)
ShapeSeqs(k, budget) ==
    IF k = 0 THEN {<<>>}
    ELSE UNION {{Append(s, sh) : sh \in {x \in WellShapes :
                                            SumIrregular(s) + Irregular(x) <= budget}} :
                s \in ShapeSeqs(k - 1, budget)}

InputLines ==
    {[i \in 1..Len(s) |-> LineOf(i, s[i])] :
        s \in UNION {ShapeSeqs(k, MaxIrregular) : k \in 0..MaxRecords}}

InputFiles ==
    {[exists |-> FALSE, lines |-> <<>>]} \cup {[exists |-> TRUE, lines |-> l] : l \in InputLines}

OldOutput == [exists |-> TRUE, lines |-> <<GoodLine(<<Item("id", Str(<<"old">>))>>)>>]
NoOutput == [exists |-> FALSE, lines |-> <<>>]

---------------------------------------------------------------------------
(* The client coroutines translate_title and translate_summary *)
FailPrefix == "translation failed: "

SummaryKeys == <<"task", "motivation", "method", "result", "conclusion">>

\* the content the remote model generates for text: the translation of a
\* title, and for a summary the JSON object key, value, key, value, ...
TitleContent(text) == <<"zh">> \o text

RECURSIVE SummaryContentOf(_, _)
SummaryContentOf(keys, text) ==
    IF keys = <<>> THEN <<>>
    ELSE <<Head(keys), text[Len(text)]>>
         \o SummaryContentOf(Tail(keys), text)

SummaryContent(text) == SummaryContentOf(SummaryKeys, text)

Http(status, wellformed, content) ==
    [kind |-> "http", status |-> status, wellformed |-> wellformed, content |-> content]
TimeoutResp == [kind |-> "timeout", status |-> 0, wellformed |-> FALSE, content |-> <<>>]
ErrorResp == [kind |-> "error", status |-> 0, wellformed |-> FALSE, content |-> <<>>]
NoResp == [kind |-> "none", status |-> 0, wellformed |-> FALSE, content |-> <<>>]

\* the keys of a generated JSON object that leaves some of the five out
PartialKeys == {<<>>, <<"task">>, <<"task", "motivation", "method", "result">>}

\* what a POST for field f with user message text can end in
Responses(f, text) ==
    {Http(200, TRUE, IF f = "title" THEN TitleContent(text) ELSE SummaryContent(text)),
     Http(200, FALSE, <<"garbage">>),
     Http(500, TRUE, <<"server error">>),
     TimeoutResp, ErrorResp}
    \cup (IF f = "summary"
          THEN {Http(200, TRUE, SummaryContentOf(keys, text)) : keys \in PartialKeys}
          ELSE {})

IsFailure(r) == ~(r.kind = "http" /\ r.status = 200 /\ r.wellformed)

\* a 200 response to the summary request whose object lacks some key
IsPartial(f, r) ==
    f = "summary" /\ ~IsFailure(r) /\ Len(r.content) < Len(SummaryKeys) + Len(SummaryKeys)

\* the guard before the request: "return" the empty result, "raise"
\* (v.strip() of a value that is no str), or go on to "post"
ClientEntryNoStrip(v) ==
    IF ~Truthy(v) THEN "return" ELSE IF v.type # "str" THEN "raise" ELSE "post"

ClientEntry(v) ==
    IF ~Truthy(v) THEN "return"
    ELSE IF v.type # "str" THEN "raise"
    ELSE IF ~Truthy(Str(Strip(v.toks))) THEN "return"
    ELSE "post"

\* a try block whose timeout handler returns the bare exception text
ClientResultBareTimeout(f, r) ==
    IF r.kind = "http" THEN
        IF r.status = 200 THEN
            IF r.wellformed
            THEN (IF f = "title" THEN Str(r.content)
                  ELSE [type |-> "dict", toks |-> r.content])
            ELSE Str(<<FailPrefix, "exception text">>)
        ELSE Str(<<FailPrefix, "status code ", ToString(r.status)>>)
    ELSE IF r.kind = "timeout" THEN Str(<<"exception text">>)
    ELSE Str(<<FailPrefix, "exception text">>)

\* the try block of translate_title / translate_summary on response r
ClientResult(f, r) ==
    IF r.kind = "http" THEN
        IF r.status = 200 THEN
            IF r.wellformed
            THEN (IF f = "title" THEN Str(r.content)
                  ELSE [type |-> "dict", toks |-> r.content])
            ELSE Str(<<FailPrefix, "exception text">>)
        ELSE Str(<<FailPrefix, "status code ", ToString(r.status)>>)
    ELSE IF r.kind = "timeout" THEN Str(<<FailPrefix, "request timed out">>)
    ELSE Str(<<FailPrefix, "exception text">>)

---------------------------------------------------------------------------
(* The tasks *)
Papers == 1..Len(papers)

EachField(x) == [f \in FieldSet |-> x]

Holding == {i \in Papers : pc[i] = "holding"}
InFlight == {<<i, f>> \in Papers \X FieldSet : call[i][f] = "inflight"}
\* the calls that ended otherwise than in a complete success
Failures == Cardinality({<<i, f>> \in Papers \X FieldSet :
                             /\ resp[i][f].kind # "none"
                             /\ IsFailure(resp[i][f]) \/ IsPartial(f, resp[i][f])})

\* asyncio.Semaphore.locked(): no permit is left
SemLockedNever(v) == FALSE

SemLocked(v) == v = 0

\* translate_jsonl_file checks the key: not api_key
KeyMissingOnlyUnset(key) == key.type = "none"

KeyMissing(key) == ~Truthy(key)

\* papers = [json.loads(line) for line in f], skipping what does not parse
LoadsSkipping(lines) == SelectSeq(lines, LAMBDA l : l.ok)

\* papers = [json.loads(line) for line in f]: one bad line fails the whole read
LoadsAll(lines) == lines

ParseFails(lines) == \E n \in 1..Len(lines) : ~lines[n].ok

\* a reader that takes a missing input for an empty one
FileMissingReadAsEmpty(file) == FALSE

\* open(input_filepath, 'r') raises FileNotFoundError
FileMissing(file) == ~file.exists

Begin(objs) ==
    /\ papers' = objs
    /\ semValue' = MAX_CONCURRENT_REQUESTS
    /\ pc' = [i \in 1..Len(objs) |-> "waiting"]
    /\ call' = [i \in 1..Len(objs) |-> EachField("idle")]
    /\ ret' = [i \in 1..Len(objs) |-> EachField(NoneVal)]
    /\ resp' = [i \in 1..Len(objs) |-> EachField(NoResp)]
    /\ posts' = [i \in 1..Len(objs) |-> EachField(0)]
    /\ phase' = "gather"
    /\ UNCHANGED reports

Stop(why) ==
    /\ phase' = why
    /\ reports' = Append(reports, why)
    /\ UNCHANGED <<papers, semValue, pc, call, ret, resp, posts>>

\* translate_jsonl_file up to its first await
Start ==
    /\ phase = "start"
    /\ IF KeyMissing(apiKey) THEN Stop("no key")
       ELSE IF FileMissing(inputFile) THEN Stop("no input file")
       ELSE LET lines == LoadsAll(inputFile.lines) IN
            IF ParseFails(lines) THEN Stop("bad json")
            ELSE Begin([n \in 1..Len(lines) |-> lines[n].obj])
    /\ UNCHANGED <<apiKey, inputFile, outputFile, res, translated>>

\* task i passes async with semaphore, reads its two fields and starts
\* gather(translate_title, translate_summary): each coroutine runs up to
\* its return, its raise or its POST
Acquire(i) ==
    /\ phase = "gather"
    /\ i \in Papers
    /\ pc[i] = "waiting"
    /\ ~SemLocked(semValue)
    /\ semValue' = semValue - 1
    /\ pc' = [pc EXCEPT ![i] = "holding"]
    /\ LET entry == [f \in FieldSet |-> ClientEntry(DictGet(papers[i], f, EmptyStr))] IN
        /\ call' = [call EXCEPT ![i] = [f \in FieldSet |->
                        CASE entry[f] = "return" -> "returned"
                          [] entry[f] = "raise" -> "raised"
                          [] OTHER -> "inflight"]]
        /\ ret' = [ret EXCEPT ![i] = [f \in FieldSet |->
                        IF entry[f] = "return" THEN EmptyStr ELSE NoneVal]]
        /\ posts' = [posts EXCEPT ![i] = [f \in FieldSet |->
                        IF entry[f] = "post" THEN posts[i][f] + 1 ELSE posts[i][f]]]
    /\ UNCHANGED <<apiKey, inputFile, outputFile, phase, reports, papers, resp,
                   res, translated>>

\* a client that issues the request once more after a failure
PostsAfterRetrying(n, r) == IF IsFailure(r) THEN n + 1 ELSE n

\* the POSTs issued for a call once its response r is there: every branch
\* of the try block returns, none issues the request again
PostsAfter(n, r) == n

\* the POST of (i, f) ends with a response r and the coroutine returns
Resolve(i, f) ==
    /\ phase = "gather"
    /\ i \in Papers
    /\ call[i][f] = "inflight"
    /\ \E r \in Responses(f, DictGet(papers[i], f, EmptyStr).toks) :
        /\ (IsFailure(r) \/ IsPartial(f, r)) => Failures < MaxFailures
        /\ call' = [call EXCEPT ![i][f] = "returned"]
        /\ ret' = [ret EXCEPT ![i][f] = ClientResult(f, r)]
        /\ resp' = [resp EXCEPT ![i][f] = r]
        /\ posts' = [posts EXCEPT ![i][f] = PostsAfter(@, r)]
    /\ UNCHANGED <<apiKey, inputFile, outputFile, phase, reports, papers, semValue,
                   pc, res, translated>>

\* a semaphore whose release is skipped
ReleaseLeaking(v) == v

\* the end of the async with block, on return and on exception alike:
\* semaphore.release()
Release(v) == v + 1

\* a gather that takes a failed call for an exception
GatherFailsOnFailedCall ==
    \/ \E i \in Papers : pc[i] = "raised"
    \/ \E i \in Papers : \E f \in FieldSet : resp[i][f].kind # "none" /\ IsFailure(resp[i][f])

\* the batch gather has a task that ended with an exception
GatherFails == \E i \in Papers : pc[i] = "raised"

\* the merge that gives both fields the failure of one
MergeFailingBoth(paper, title_zh, summary_info) ==
    LET bad(v) == v.type = "str" /\ v.toks # <<>> /\ Head(v.toks) = FailPrefix IN
    IF bad(title_zh) \/ bad(summary_info)
    THEN DictSet(DictSet(paper, "title_zh", IF bad(title_zh) THEN title_zh ELSE summary_info),
                 "AI", IF bad(title_zh) THEN title_zh ELSE summary_info)
    ELSE DictSet(DictSet(paper, "title_zh", title_zh), "AI", summary_info)

\* the merge with d[k] = v appending
MergeAppending(paper, title_zh, summary_info) ==
    DictSetAppending(DictSetAppending(paper, "title_zh", title_zh), "AI", summary_info)

\* paper_data['title_zh'] = title_zh; paper_data['AI'] = summary_info
Merge(paper, title_zh, summary_info) ==
    DictSet(DictSet(paper, "title_zh", title_zh), "AI", summary_info)

\* both coroutines of task i have returned: it merges, leaves the
\* semaphore and returns paper_data
Finish(i) ==
    /\ phase = "gather"
    /\ i \in Papers
    /\ pc[i] = "holding"
    /\ \A f \in FieldSet : call[i][f] = "returned"
    /\ papers' = [papers EXCEPT ![i] = Merge(papers[i], ret[i]["title"], ret[i]["summary"])]
    /\ semValue' = Release(semValue)
    /\ pc' = [pc EXCEPT ![i] = "done"]
    /\ res' = Append(res, <<i, papers'[i]>>)
    /\ UNCHANGED <<apiKey, inputFile, outputFile, phase, reports, call, ret, resp,
                   posts, translated>>

\* a coroutine of task i has raised: gather hands the exception to the
\* task at once, which leaves the semaphore; the other coroutine runs on
Raise(i) ==
    /\ phase = "gather"
    /\ i \in Papers
    /\ pc[i] = "holding"
    /\ \E f \in FieldSet : call[i][f] = "raised"
    /\ semValue' = Release(semValue)
    /\ pc' = [pc EXCEPT ![i] = "raised"]
    /\ UNCHANGED <<apiKey, inputFile, outputFile, phase, reports, papers, call, ret,
                   resp, posts, res, translated>>

\* the batch gather meets the exception of a task: translate_jsonl_file
\* raises, and asyncio.run cancels what is left
Crash ==
    /\ phase = "gather"
    /\ GatherFails
    /\ phase' = "crashed"
    /\ pc' = [i \in Papers |-> IF pc[i] \in {"waiting", "holding"} THEN "cancelled" ELSE pc[i]]
    /\ semValue' = semValue + Cardinality(Holding)
    /\ call' = [i \in Papers |-> [f \in FieldSet |->
                    IF call[i][f] = "inflight" THEN "cancelled" ELSE call[i][f]]]
    /\ UNCHANGED <<apiKey, inputFile, outputFile, reports, papers, ret, resp, posts,
                   res, translated>>

\* results in the order the tasks completed
GatherCompletionOrder(pairs) == [n \in 1..Len(pairs) |-> pairs[n][2]]

\* tqdm gather: the (index, result) pairs sorted by index, the results taken
Gather(pairs) ==
    [n \in 1..Len(pairs) |-> pairs[CHOOSE m \in 1..Len(pairs) : pairs[m][1] = n][2]]

\* every task has returned: the gather returns and the output is opened 'w'
OpenOutput ==
    /\ phase = "gather"
    /\ \A i \in Papers : pc[i] = "done"
    /\ translated' = Gather(res)
    /\ outputFile' = [exists |-> TRUE, lines |-> <<>>]
    /\ phase' = "writing"
    /\ UNCHANGED <<apiKey, inputFile, reports, papers, semValue, pc, call, ret, resp,
                   posts, res>>

\* json.dumps(paper): the line whose JSON text is paper
Dumps(paper) == GoodLine(paper)

\* f.write(json.dumps(paper) + newline) for the next paper
WriteLine ==
    /\ phase = "writing"
    /\ Len(outputFile.lines) < Len(translated)
    /\ outputFile' = [outputFile EXCEPT !.lines =
                          Append(@, Dumps(translated[Len(outputFile.lines) + 1]))]
    /\ UNCHANGED <<apiKey, inputFile, phase, reports, papers, semValue, pc, call, ret,
                   resp, posts, res, translated>>

\* f.write (or the flush of the closing file) raises OSError: the exception
\* leaves the with block, which closes the file as far as it was written,
\* and leaves translate_jsonl_file
WriteFail ==
    /\ phase = "writing"
    /\ phase' = "write failed"
    /\ UNCHANGED <<apiKey, inputFile, outputFile, reports, papers, semValue, pc, call,
                   ret, resp, posts, res, translated>>

\* the with block of the output ends
CloseOutput ==
    /\ phase = "writing"
    /\ Len(outputFile.lines) = Len(translated)
    /\ phase' = "done"
    /\ UNCHANGED <<apiKey, inputFile, outputFile, reports, papers, semValue, pc, call,
                   ret, resp, posts, res, translated>>

\* paper2md.py, render_to_markdown: paper["AI"]["task"] and the like are
\* plain subscriptions, which raise when AI is no dict or lacks the key
AIHasKey(paper, key) ==
    LET ai == DictGet(paper, "AI", NoneVal) IN
    /\ ai.type = "dict"
    /\ \E n \in 1..Len(ai.toks) : n % 2 = 1 /\ ai.toks[n] = key
AIValue(paper, key) ==
    LET ai == DictGet(paper, "AI", NoneVal) IN
    ai.toks[(CHOOSE n \in 1..Len(ai.toks) : n % 2 = 1 /\ ai.toks[n] = key) + 1]
RenderRaises(paper) ==
    \E n \in 1..Len(SummaryKeys) : ~AIHasKey(paper, SummaryKeys[n])

---------------------------------------------------------------------------
ApiKeys == {NoneVal, EmptyStr, Str(<<"sk-key">>)}

Init ==
    /\ apiKey \in ApiKeys
    /\ inputFile \in InputFiles
    /\ outputFile \in {NoOutput, OldOutput}
    /\ phase = "start"
    /\ reports = <<>>
    /\ papers = <<>>
    /\ semValue = 0
    /\ pc = <<>>
    /\ call = <<>>
    /\ ret = <<>>
    /\ resp = <<>>
    /\ posts = <<>>
    /\ res = <<>>
    /\ translated = <<>>

Next ==
    \/ Start
    \/ \E i \in Papers : Acquire(i)
    \/ \E i \in Papers, f \in FieldSet : Resolve(i, f)
    \/ \E i \in Papers : Finish(i)
    \/ \E i \in Papers : Raise(i)
    \/ Crash
    \/ OpenOutput
    \/ WriteLine
    \/ WriteFail
    \/ CloseOutput

Spec == Init /\ [][Next]_vars

\* asyncio.run drives the event loop until translate_jsonl_file ends: while
\* a task can take a step, a step is taken.  Every step moves a coroutine,
\* a task or the batch forward and none can be taken twice, so no step is
\* passed over for ever in favour of others.
FairSpec == Spec /\ WF_vars(Next)

---------------------------------------------------------------------------
(* What the claims speak of *)
KeySet == apiKey.type = "str" /\ apiKey.toks # <<>>
InputObj(i) == inputFile.lines[i].obj
HasGoodLine == \E n \in 1..Len(inputFile.lines) : inputFile.lines[n].ok
HasBadLine == \E n \in 1..Len(inputFile.lines) : ~inputFile.lines[n].ok
OutputUntouched == outputFile \in {NoOutput, OldOutput}
Terminal == {"done", "no key", "no input file", "bad json", "crashed", "write failed"}

FailureTagged(v) == v.type = "str" /\ Len(v.toks) >= 1 /\ v.toks[1] = FailPrefix
RespOk(r) == r.kind = "http" /\ r.status = 200 /\ r.wellformed
\* the call for field f succeeded: a 200 with the complete result
RespFull(f, r) == RespOk(r) /\ ~IsPartial(f, r)
RespFailed(r) ==
    \/ r.kind \in {"timeout", "error"}
    \/ r.kind = "http" /\ (r.status # 200 \/ ~r.wellformed)
Other(f) == IF f = "title" THEN "summary" ELSE "title"
DerivedKey(f) == IF f = "title" THEN "title_zh" ELSE "AI"
DerivedKeys == {"title_zh", "AI"}
NotDerived(item) == item.k \notin DerivedKeys
Occurrences(d, k) == Cardinality({n \in 1..Len(d) : d[n].k = k})

\* the field is missing, empty or whitespace-only
BlankField(d, f) ==
    \/ ~HasKey(d, f)
    \/ LET v == DictGet(d, f, EmptyStr) IN
           v.type = "str" /\ \A n \in 1..Len(v.toks) : v.toks[n] \in Whitespace
TextField(d, f) == HasKey(d, f) /\ ~BlankField(d, f) /\ DictGet(d, f, EmptyStr).type = "str"

\* the value a successful call for field f of record d yields
SuccessValue(d, f) ==
    IF f = "title" THEN Str(<<"zh">> \o DictGet(d, f, EmptyStr).toks)
    ELSE [type |-> "dict",
          toks |-> LET t == DictGet(d, f, EmptyStr).toks IN
                   <<"task", t[Len(t)], "motivation", t[Len(t)], "method", t[Len(t)],
                     "result", t[Len(t)], "conclusion", t[Len(t)]>>]

---------------------------------------------------------------------------
\* C1: the number of remote calls in flight at one time never exceeds the
\* gate ceiling MAX_CONCURRENT_REQUESTS.
C1_InFlightAtMostN == Cardinality(InFlight) <= MAX_CONCURRENT_REQUESTS

\* C2: whatever the completion order of the tasks, the written output has
\* one entry per input record, and entry i is input record i (its own
\* fields) with the values returned for record i as title_zh and AI.
C2_OrderPreserved ==
    phase = "done" =>
        /\ Len(outputFile.lines) = Len(inputFile.lines)
        /\ \A i \in 1..Len(outputFile.lines) :
              LET out == outputFile.lines[i] IN
              /\ out.ok
              /\ SelectSeq(out.obj, NotDerived) = SelectSeq(InputObj(i), NotDerived)
              /\ DictGet(out.obj, "title_zh", NoneVal) = ret[i]["title"]
              /\ DictGet(out.obj, "AI", NoneVal) = ret[i]["summary"]

\* C2 witness: the output is written after a later record completed
\* before an earlier one.
C2_Witness ==
    /\ phase = "done"
    /\ Len(res) >= 2
    /\ \E m \in 1..Len(res) - 1 : res[m][1] > res[m + 1][1]

\* C3: the number of tasks that have acquired the gate and not released it
\* is at most MAX_CONCURRENT_REQUESTS.
C3_PermitsAtMostN == Cardinality(Holding) <= MAX_CONCURRENT_REQUESTS

\* C3 witness: the gate is full while another task waits at it.
C3_Witness ==
    /\ Cardinality(Holding) = MAX_CONCURRENT_REQUESTS
    /\ \E i \in Papers : pc[i] = "waiting"

\* C4: in the written output, a record whose title call failed and whose
\* summary call succeeded has a failure-tagged title_zh and the successful
\* summary as AI, and the other way round; and every field of every record
\* whose own call succeeded holds its own successful value, whatever failed
\* in another record.
C4_PartialFailureIsolated ==
    phase = "done" =>
        \A k \in 1..Len(outputFile.lines) : \A f \in FieldSet :
            LET out == outputFile.lines[k].obj IN
            /\ (RespFailed(resp[k][f]) /\ RespFull(Other(f), resp[k][Other(f)])) =>
                  /\ FailureTagged(DictGet(out, DerivedKey(f), NoneVal))
                  /\ DictGet(out, DerivedKey(Other(f)), NoneVal)
                        = SuccessValue(InputObj(k), Other(f))
            /\ RespFull(f, resp[k][f]) =>
                  DictGet(out, DerivedKey(f), NoneVal) = SuccessValue(InputObj(k), f)

\* C4 witness: the output is written for two or more records, one of which
\* had its title call fail and its summary call succeed.
C4_Witness ==
    /\ phase = "done"
    /\ Len(outputFile.lines) >= 2
    /\ \E k \in Papers : RespFailed(resp[k]["title"]) /\ RespFull("summary", resp[k]["summary"])

\* C5: translate_paper_record never raises, and the batch is never brought
\* down by one record.
C5_NeverRaises ==
    /\ \A i \in Papers : pc[i] # "raised"
    /\ phase # "crashed"

\* C6 (as stated): with a well-formed and a malformed line in the input and
\* the credential set, the run ends with the output written, one entry per
\* well-formed line.
C6_MalformedSkipped ==
    (KeySet /\ HasGoodLine /\ HasBadLine /\ phase \in Terminal) =>
        /\ phase = "done"
        /\ Len(outputFile.lines) = Len(SelectSeq(inputFile.lines, LAMBDA l : l.ok))

\* C6 (amended): with a malformed line in the input and the credential set,
\* the parse error is reported once and the run stops there: no record is
\* taken up, no task or remote call is started, the output is not touched.
C6_MalformedAborts ==
    (KeySet /\ HasBadLine /\ phase # "start") =>
        /\ phase = "bad json"
        /\ reports = <<"bad json">>
        /\ papers = <<>> /\ pc = <<>> /\ posts = <<>>
        /\ OutputUntouched

\* C6 witness: the run has stopped on an input with a malformed and a
\* well-formed line.
C6_Witness == phase = "bad json" /\ HasGoodLine /\ HasBadLine

\* C7: with DEEPSEEK_API_KEY unset or empty, the error is reported once and
\* the run stops: no record is taken up, no permit acquired, no remote call
\* issued, the output not written.
C7_NoKeyStops ==
    ((apiKey.type = "none" \/ apiKey = EmptyStr) /\ phase # "start") =>
        /\ phase = "no key"
        /\ reports = <<"no key">>
        /\ papers = <<>> /\ pc = <<>> /\ posts = <<>>
        /\ OutputUntouched

\* C7 witness: the run has stopped for an empty key, with records to read.
C7_Witness ==
    /\ phase = "no key"
    /\ apiKey = EmptyStr
    /\ inputFile.exists /\ HasGoodLine

\* C8: under fair scheduling, every task that waits at the gate gets a
\* permit, every record reaches its terminal state and the batch writes
\* its output (as far as the file system lets it).
C8_BatchEventuallyWrites ==
    /\ \A i \in 1..MaxRecords :
          (i \in Papers /\ pc[i] = "waiting") ~> (i \in Papers /\ pc[i] = "done")
    /\ (phase = "gather") ~> (phase \in {"done", "write failed"})

\* C9: a record that has been enriched has its other items as they were
\* read, in place and in order, and each of title_zh and AI exactly once,
\* holding the values returned by the two calls (also when it carried
\* title_zh and AI before); a record not yet enriched is as it was read.
C9_OnlyDerivedFieldsChange ==
    \A i \in Papers :
        IF pc[i] = "done"
        THEN /\ SelectSeq(papers[i], NotDerived) = SelectSeq(InputObj(i), NotDerived)
             /\ \A k \in DerivedKeys : Occurrences(papers[i], k) = 1
             /\ DictGet(papers[i], "title_zh", NoneVal) = ret[i]["title"]
             /\ DictGet(papers[i], "AI", NoneVal) = ret[i]["summary"]
        ELSE papers[i] = InputObj(i)

\* C9 witness: a record that carried title_zh and AI has been enriched
\* again.
C9_Witness ==
    \E i \in Papers :
        /\ pc[i] = "done"
        /\ HasKey(InputObj(i), "title_zh") /\ HasKey(InputObj(i), "AI")

\* C10: for a field that is missing, empty or whitespace-only no remote
\* call is ever issued and its derived value is the empty string, not a
\* failure-tagged one; the other field of the record, if it has text, has
\* its one call issued and its derived value from that call's response.
C10_BlankFieldShortCircuits ==
    \A i \in Papers : \A f \in FieldSet :
        BlankField(InputObj(i), f) =>
            /\ posts[i][f] = 0
            /\ resp[i][f] = NoResp
            /\ pc[i] = "done" =>
                  /\ DictGet(papers[i], DerivedKey(f), NoneVal) = EmptyStr
                  /\ ~FailureTagged(DictGet(papers[i], DerivedKey(f), NoneVal))
            /\ (pc[i] = "done" /\ TextField(InputObj(i), Other(f))) =>
                  /\ posts[i][Other(f)] = 1
                  /\ RespFull(Other(f), resp[i][Other(f)]) =>
                        DictGet(papers[i], DerivedKey(Other(f)), NoneVal)
                          = SuccessValue(InputObj(i), Other(f))
                  /\ RespFailed(resp[i][Other(f)]) =>
                        FailureTagged(DictGet(papers[i], DerivedKey(Other(f)), NoneVal))

\* C10 witness: a record with a whitespace-only field has been enriched.
C10_Witness ==
    \E i \in Papers : \E f \in FieldSet :
        /\ pc[i] = "done"
        /\ DictGet(InputObj(i), f, EmptyStr) = Str(<<" ">>)

\* C11: when the summary request of a record is answered with status 200
\* and a JSON object that lacks some of the keys task, motivation, method,
\* result and conclusion, the AI value merged into the record has all five
\* keys, each missing one with the empty string as its value, and rendering
\* the record raises no error.
C11_MissingKeysDefaulted ==
    \A i \in Papers :
        (pc[i] = "done" /\ IsPartial("summary", resp[i]["summary"])) =>
            /\ \A n \in 1..Len(SummaryKeys) :
                  /\ AIHasKey(papers[i], SummaryKeys[n])
                  /\ SummaryKeys[n] \notin
                         {resp[i]["summary"].content[m] :
                              m \in {x \in 1..Len(resp[i]["summary"].content) : x % 2 = 1}}
                     => AIValue(papers[i], SummaryKeys[n]) = ""
            /\ ~RenderRaises(papers[i])

\* C12: when translate_jsonl_file has ended, by returning or by raising,
\* the output is either as it was before the run or holds all the enriched
\* records, one line each: never a strict prefix of them, and never
\* emptied, also when a write fails part-way.
C12_OutputAllOrNothing ==
    phase \in Terminal =>
        \/ OutputUntouched
        \/ /\ outputFile.exists
           /\ \A i \in Papers : pc[i] = "done"
           /\ outputFile.lines = [i \in 1..Len(papers) |-> GoodLine(papers[i])]

\* C13: a client call whose request ended in a non-200 status, in a
\* timeout or in any other exception (an unparseable payload among them)
\* has returned, not raised, and what it returned is a string that begins
\* with the failure prefix and carries the status code, the timeout
\* indicator or the exception description respectively.
C13_FailuresAreValues ==
    \A i \in Papers : \A f \in FieldSet :
        LET r == resp[i][f]
            v == ret[i][f]
            Carries(tok) == \E n \in 2..Len(v.toks) : v.toks[n] = tok
        IN  RespFailed(r) =>
                /\ call[i][f] = "returned"
                /\ v.type = "str"
                /\ Len(v.toks) >= 2
                /\ Head(v.toks) = FailPrefix
                /\ (r.kind = "http" /\ r.status # 200) => Carries(ToString(r.status))
                /\ r.kind = "timeout" => Carries("request timed out")
                /\ (r.kind = "error" \/ (r.kind = "http" /\ r.status = 200)) =>
                       Carries("exception text")

\* C13 witness: a call that timed out has returned and its record has been
\* enriched with what it returned.
C13_Witness ==
    \E i \in Papers : \E f \in FieldSet :
        /\ resp[i][f].kind = "timeout"
        /\ pc[i] = "done"
        /\ DictGet(papers[i], DerivedKey(f), NoneVal) = ret[i][f]

\* C14: a remote call of a record is in flight only while the task of that
\* record holds a permit of the gate: the permit is taken before either
\* call is issued, and it is given back only when both the title call and
\* the summary call have resolved.
C14_CallsOnlyUnderPermit ==
    \A i \in Papers :
        /\ (\E f \in FieldSet : call[i][f] = "inflight") => pc[i] = "holding"
        /\ pc[i] = "waiting" => \A f \in FieldSet : posts[i][f] = 0
        /\ pc[i] \in {"done", "raised"} => \A f \in FieldSet : call[i][f] # "inflight"

\* C15: every permit a task has taken is given back exactly once, whether
\* its calls succeeded or failed or the task raised or was cancelled: at all
\* times the free permits and the tasks holding one add up to
\* MAX_CONCURRENT_REQUESTS, and once every task has finished all
\* MAX_CONCURRENT_REQUESTS permits are free.
C15_PermitsNeverLeak ==
    Papers # {} =>
        /\ semValue + Cardinality(Holding) = MAX_CONCURRENT_REQUESTS
        /\ (\A i \in Papers : pc[i] \in {"done", "raised", "cancelled"}) =>
               semValue = MAX_CONCURRENT_REQUESTS

\* C15 witness: all tasks have finished, more of them than there are
\* permits, one by raising and one after a failed call.
C15_Witness ==
    /\ Len(papers) > MAX_CONCURRENT_REQUESTS
    /\ \A i \in Papers : pc[i] \in {"done", "raised", "cancelled"}
    /\ \E i \in Papers : pc[i] = "raised"
    /\ \E i \in Papers : \E f \in FieldSet : pc[i] = "done" /\ RespFailed(resp[i][f])
    /\ semValue = MAX_CONCURRENT_REQUESTS

\* C16: every step that changes the output is taken in a state where
\* every task of the batch has completed, none waiting at the gate or
\* holding a permit and no call in flight; and no step cancels a task or a
\* call unless a task has raised: a call that failed cancels nothing.
C16_Barrier ==
    [][/\ outputFile' # outputFile =>
             \A i \in Papers :
                 /\ pc[i] = "done"
                 /\ \A f \in FieldSet : call[i][f] = "returned"
       /\ \A j \in Papers :
             (\/ pc[j] # "cancelled" /\ pc'[j] = "cancelled"
              \/ \E f \in FieldSet : call[j][f] # "cancelled" /\ call'[j][f] = "cancelled")
             => \E i \in Papers : pc[i] = "raised"]_vars

\* C16 witness: the output is being written, a line of it is there, for a
\* batch of more records than permits in which a call failed.
C16_Witness ==
    /\ phase = "writing"
    /\ Len(outputFile.lines) >= 1
    /\ Len(papers) > MAX_CONCURRENT_REQUESTS
    /\ \E i \in Papers : \E f \in FieldSet : RespFailed(resp[i][f])
    /\ \A i \in Papers : pc[i] = "done"

\* C17: for each record and field at most one request is ever issued,
\* whatever its outcome: a call that failed is over and was issued once,
\* and the requests of a run number at most two per record.
C17_SingleAttempt ==
    /\ \A i \in Papers : \A f \in FieldSet :
          /\ posts[i][f] <= 1
          /\ RespFailed(resp[i][f]) => posts[i][f] = 1 /\ call[i][f] = "returned"
    /\ LET Total[n \in 0..Len(posts)] ==
               IF n = 0 THEN 0 ELSE Total[n - 1] + posts[n]["title"] + posts[n]["summary"]
       IN  Total[Len(posts)] <= 2 * Len(papers)

\* C17 witness: a record whose title request failed and whose summary
\* request was answered has been enriched, with one request issued for each.
C17_Witness ==
    \E i \in Papers :
        /\ pc[i] = "done"
        /\ RespFailed(resp[i]["title"])
        /\ RespFull("summary", resp[i]["summary"])
        /\ posts[i] = [title |-> 1, summary |-> 1]

\* C18: the number of remote calls in flight at one time is never more
\* than twice MAX_CONCURRENT_REQUESTS (two calls for each task that holds
\* a permit).
C18_InFlightAtMostTwiceN == Cardinality(InFlight) <= 2 * MAX_CONCURRENT_REQUESTS

\* C19: when the input file is missing, or some line of it is no JSON,
\* translate_jsonl_file returns before it creates the gate: once it has
\* run it has stopped with its report, no gate and no task exist, no
\* request was issued, and the output is as it was, neither created nor
\* truncated nor written.
C19_UnreadableInputStopsEarly ==
    (phase # "start" /\ (~inputFile.exists \/ HasBadLine)) =>
        /\ phase \in {"no key", "no input file", "bad json"}
        /\ Len(reports) = 1
        /\ semValue = 0
        /\ papers = <<>> /\ pc = <<>> /\ call = <<>> /\ posts = <<>>
        /\ res = <<>> /\ translated = <<>>
        /\ OutputUntouched

\* C19 witness: with the key set and the input file missing the run has
\* stopped, an output with prior contents being there.
C19_Witness ==
    /\ KeySet
    /\ ~inputFile.exists
    /\ phase = "no input file"
    /\ outputFile = OldOutput
====
